---------------------------- MODULE Spec2Model ----------------------------
(***************************************************************************)
(* A model of src/model/check.ts of vscode-tlaplus: the value model        *)
(* (Value, CollectionValue and its variants), the change tags, the         *)
(* findChanges merge-join that marks the changes between two consecutive   *)
(* states of an error trace, and the ModelCheckResult snapshot.            *)
(*                                                                         *)
(* Objects live in a heap: a sequence of records, an object's identity     *)
(* being its index.  A collection's items and deletedItems hold indices,   *)
(* so that in-place mutation and aliasing are what they are in the code.   *)
(* An optional field (T | undefined) is a sequence of length 0 or 1.       *)
(* Keys are integers: one totally ordered key domain.                      *)
(***************************************************************************)
EXTENDS Integers, Sequences, FiniteSets, TLC

VARIABLES heap,    \* the objects constructed so far
          trace,   \* the roots of the states of the error trace, in order
          last,    \* the last operation performed, with its arguments and result
          pre,     \* the heap as it was before the last operation
          result   \* the current ModelCheckResult, if any

vars == <<heap, trace, last, pre, result>>

----------------------------------------------------------------------------
(* Bounds of the model *)

MaxKey == 2          \* keys of the variables of a state: 1..MaxKey
MaxFlatKey == 4      \* keys of the flat sets of numbers: 1..MaxFlatKey
MaxFlatItems == 3    \* items of a flat set of numbers
MaxTrace == 3        \* states of a trace diffed in order
MaxErrors == 1       \* error messages handed to the ModelCheckResult constructor

Strs == {"a", "b"}   \* renderings of the leaf values
RootLens == {0, 1, 2}   \* how many variables a state has
InnerLens == {0, 1}     \* how many items a nested collection has
InnerKeys == {1}        \* keys used inside nested collections

----------------------------------------------------------------------------
(* enum Change *)

NOT_CHANGED == "N"
ADDED == "A"
MODIFIED == "M"
DELETED == "D"

Change == {NOT_CHANGED, ADDED, MODIFIED, DELETED}

Undefined == <<>>
Some(v) == <<v>>

----------------------------------------------------------------------------
(* Strings *)

RECURSIVE Join(_, _)
\* Array.prototype.join
Join(strs, delimiter) ==
    IF Len(strs) = 0 THEN ""
    ELSE IF Len(strs) = 1 THEN strs[1]
    ELSE strs[1] \o delimiter \o Join(Tail(strs), delimiter)

NotDeleted(h, i) == h[i].changeType # DELETED

\* toStr of CollectionValue's constructor when none is given: v => v.str
strOf(h) == [i \in DOMAIN h |-> h[i].str]

\* StructureValue.itemToString
itemToString(h) == [i \in DOMAIN h |-> ToString(h[i].key) \o " |-> " \o h[i].str]

makeCollectionValueString(h, items, prefix, postfix, delimiter, toStr) ==
    LET kept == SelectSeq(items, LAMBDA i : NotDeleted(h, i))
        valuesStr == Join([n \in 1..Len(kept) |-> toStr[kept[n]]], delimiter)
    IN  prefix \o valuesStr \o postfix

----------------------------------------------------------------------------
(* Constructors.  Each returns the new object; Alloc puts it in the heap. *)

CollectionClasses == {"SetValue", "SequenceValue", "StructureValue"}

\* class Value: key, str, changeType = NOT_CHANGED
Value(key, str) ==
    [cls |-> "Value", key |-> key, str |-> str, items |-> <<>>,
     changeType |-> NOT_CHANGED, deletedItems |-> Undefined]

\* class CollectionValue: items, deletedItems undefined, str rendered from the items
CollectionValue(h, cls, key, items, prefix, postfix, toStr) ==
    [cls |-> cls, key |-> key,
     str |-> makeCollectionValueString(h, items, prefix, postfix, ", ", toStr),
     items |-> items, changeType |-> NOT_CHANGED, deletedItems |-> Undefined]

SetValue(h, key, items) ==
    CollectionValue(h, "SetValue", key, items, "{", "}", strOf(h))

SequenceValue(h, key, items) ==
    CollectionValue(h, "SequenceValue", key, items, "<<", ">>", strOf(h))

\* StructureValue.compareItems
compareItems(h, a, b) ==
    IF h[a].key < h[b].key THEN -1
    ELSE IF h[a].key > h[b].key THEN 1
    ELSE 0

RECURSIVE InsertSorted(_, _, _)
InsertSorted(h, sorted, x) ==
    IF Len(sorted) = 0 THEN <<x>>
    ELSE IF compareItems(h, x, sorted[Len(sorted)]) < 0
         THEN Append(InsertSorted(h, SubSeq(sorted, 1, Len(sorted) - 1), x),
                     sorted[Len(sorted)])
         ELSE Append(sorted, x)

RECURSIVE SortItems(_, _)
\* items.sort(StructureValue.compareItems): a stable sort
SortItems(h, items) ==
    IF Len(items) = 0 THEN <<>>
    ELSE InsertSorted(h, SortItems(h, SubSeq(items, 1, Len(items) - 1)),
                      items[Len(items)])

StructureValue(h, key, items, preserveOrder) ==
    CollectionValue(h, "StructureValue", key,
                    IF preserveOrder THEN items ELSE SortItems(h, items),
                    "[", "]", itemToString(h))

Alloc(h, obj) == [heap |-> Append(h, obj), id |-> Len(h) + 1]

IsCollection(h, i) == h[i].cls \in CollectionClasses

----------------------------------------------------------------------------
(* What the parser hands over: a description of a value tree, built bottom *)
(* up by the constructors, children before their parent.                   *)

Leaf(key, str) ==
    [cls |-> "Value", key |-> key, str |-> str, items |-> <<>>, preserveOrder |-> TRUE]

Coll(cls, key, items, preserveOrder) ==
    [cls |-> cls, key |-> key, str |-> "", items |-> items, preserveOrder |-> preserveOrder]

RECURSIVE Build(_, _)
RECURSIVE BuildItems(_, _)

\* constructs the items of a collection, in order: [heap, ids]
BuildItems(h, descs) ==
    IF Len(descs) = 0 THEN [heap |-> h, ids |-> <<>>]
    ELSE LET first == Build(h, Head(descs))
             rest == BuildItems(first.heap, Tail(descs))
         IN  [heap |-> rest.heap, ids |-> <<first.id>> \o rest.ids]

\* constructs the value a description stands for: [heap, id]
Build(h, d) ==
    IF d.cls = "Value" THEN Alloc(h, Value(d.key, d.str))
    ELSE LET bi == BuildItems(h, d.items)
         IN  CASE d.cls = "SetValue" ->
                    Alloc(bi.heap, SetValue(bi.heap, d.key, bi.ids))
               [] d.cls = "SequenceValue" ->
                    Alloc(bi.heap, SequenceValue(bi.heap, d.key, bi.ids))
               [] d.cls = "StructureValue" ->
                    Alloc(bi.heap, StructureValue(bi.heap, d.key, bi.ids, d.preserveOrder))

----------------------------------------------------------------------------
(* Value.setModified / setAdded / setDeleted *)

SetChangeType(h, i, c) == [h EXCEPT ![i].changeType = c]

setModified(h, i) == SetChangeType(h, i, MODIFIED)

setAdded(h, i) == SetChangeType(h, i, ADDED)

setDeleted(h, i) == SetChangeType(h, i, MODIFIED)

----------------------------------------------------------------------------
(* CollectionValue.addDeletedItems *)

DeletedItemsOrEmpty(h, i) ==
    IF h[i].deletedItems = Undefined THEN <<>> ELSE h[i].deletedItems[1]

RECURSIVE PushDeletedBySetter(_, _, _)
\* the new Value tagged by calling its setDeleted()
PushDeletedBySetter(h, this, items) ==
    IF Len(items) = 0 THEN h
    ELSE LET delItem == Head(items)
             a == Alloc(h, Value(h[delItem].key, h[delItem].str))
             h2 == [setDeleted(a.heap, a.id) EXCEPT ![this].deletedItems =
                        Some(Append(a.heap[this].deletedItems[1], a.id))]
         IN  PushDeletedBySetter(h2, this, Tail(items))

RECURSIVE PushDeleted(_, _, _)
\* items.forEach(delItem => ...): a new Value per item, tagged DELETED, pushed
PushDeleted(h, this, items) ==
    IF Len(items) = 0 THEN h
    ELSE LET delItem == Head(items)
             newValue == [Value(h[delItem].key, h[delItem].str)
                            EXCEPT !.changeType = DELETED]
             a == Alloc(h, newValue)
             h2 == [a.heap EXCEPT ![this].deletedItems =
                        Some(Append(a.heap[this].deletedItems[1], a.id))]
         IN  PushDeleted(h2, this, Tail(items))

RECURSIVE TagDeleted(_, _)
TagDeleted(h, items) ==
    IF Len(items) = 0 THEN h
    ELSE TagDeleted(SetChangeType(h, Head(items), DELETED), Tail(items))

\* the previous state's items themselves tagged and pushed, no copy made
addDeletedItemsNoCopy(h, this, items) ==
    IF Len(items) = 0 THEN h
    ELSE [TagDeleted(h, items) EXCEPT ![this].deletedItems =
            Some(DeletedItemsOrEmpty(h, this) \o items)]

addDeletedItems(h, this, items) ==
    IF Len(items) = 0 THEN h
    ELSE LET h1 == IF h[this].deletedItems = Undefined
                   THEN [h EXCEPT ![this].deletedItems = Some(<<>>)]
                   ELSE h
         IN  PushDeleted(h1, this, items)

----------------------------------------------------------------------------
(* findChanges(prev, state).  The result carries the heap after the call,  *)
(* the value returned, and two records of what the call did: calls, the    *)
(* invocations made (the outer one and the recursive ones, each with its   *)
(* return value), and met, the pairs of equal-key items it compared.       *)

KeyGreaterOrEqual(h, prevValue, stateValue) == h[prevValue].key >= h[stateValue].key

\* prevValue.key > stateValue.key
KeyGreater(h, prevValue, stateValue) == h[prevValue].key > h[stateValue].key

KeyLessOrEqual(h, prevValue, stateValue) == h[prevValue].key <= h[stateValue].key

\* prevValue.key < stateValue.key
KeyLess(h, prevValue, stateValue) == h[prevValue].key < h[stateValue].key

\* prevValue instanceof CollectionValue && stateValue instanceof CollectionValue
BothCollections(h, prevValue, stateValue) ==
    IsCollection(h, prevValue) /\ IsCollection(h, stateValue)

\* prevValue.str !== stateValue.str
StrDiffers(h, prevValue, stateValue) == h[prevValue].str # h[stateValue].str

\* the value returned by the recursive call dropped
OrModifiedDropped(childModified, modified) == modified

\* modified = findChanges(prevValue, stateValue) || modified
OrModified(childModified, modified) == childModified \/ modified

\* the deleted items left out of the result
OrDeletedIgnored(modified, deletedItems) == modified

\* modified = modified || deletedItems.length > 0
OrDeleted(modified, deletedItems) == modified \/ Len(deletedItems) > 0

\* if (modified) { state.changeType = Change.MODIFIED; }
MarkState(h, state, modified) ==
    IF modified THEN SetChangeType(h, state, MODIFIED) ELSE h

RECURSIVE findChanges(_, _, _)
RECURSIVE MergeLoop(_, _, _, _)
RECURSIVE AddRemaining(_, _, _)

\* while (pi < prev.items.length && si < state.items.length) { ... }
\* c: the locals pi, si, modified, deletedItems, with the heap (indices from 1)
MergeLoop(h, prev, state, c) ==
    IF c.pi <= Len(h[prev].items) /\ c.si <= Len(h[state].items)
    THEN LET prevValue == h[prev].items[c.pi]
             stateValue == h[state].items[c.si]
         IN  IF KeyGreater(h, prevValue, stateValue)
             THEN MergeLoop(SetChangeType(h, stateValue, ADDED), prev, state,
                            [c EXCEPT !.modified = TRUE, !.si = @ + 1])
             ELSE IF KeyLess(h, prevValue, stateValue)
             THEN MergeLoop(h, prev, state,
                            [c EXCEPT !.deletedItems = Append(@, prevValue),
                                      !.pi = @ + 1])
             ELSE LET c1 == [c EXCEPT !.si = @ + 1, !.pi = @ + 1,
                                      !.met = @ \cup {<<prevValue, stateValue>>}]
                  IN  IF BothCollections(h, prevValue, stateValue)
                      THEN LET r == findChanges(h, prevValue, stateValue)
                           IN  MergeLoop(r.heap, prev, state,
                                   [c1 EXCEPT !.modified = OrModified(r.ret, @),
                                              !.calls = @ \cup r.calls,
                                              !.met = @ \cup r.met])
                      ELSE IF StrDiffers(h, prevValue, stateValue)
                      THEN MergeLoop(SetChangeType(h, stateValue, MODIFIED),
                                     prev, state, [c1 EXCEPT !.modified = TRUE])
                      ELSE MergeLoop(h, prev, state, c1)
    ELSE [c EXCEPT !.heap = h]

\* for (; si < state.items.length; si++) { ... }
AddRemaining(h, state, c) ==
    IF c.si <= Len(h[state].items)
    THEN AddRemaining(SetChangeType(h, h[state].items[c.si], ADDED), state,
                      [c EXCEPT !.modified = TRUE, !.si = @ + 1])
    ELSE [c EXCEPT !.heap = h]

\* the trailing loop over prev left out
DeleteRemainingSkipped(h, prev, c) == c

\* for (; pi < prev.items.length; pi++) { deletedItems.push(prev.items[pi]); }
DeleteRemaining(h, prev, c) ==
    [c EXCEPT !.deletedItems = @ \o SubSeq(h[prev].items, c.pi, Len(h[prev].items)),
              !.pi = Len(h[prev].items) + 1]

findChanges(h, prev, state) ==
    LET c0 == [heap |-> h, pi |-> 1, si |-> 1, modified |-> FALSE,
               deletedItems |-> <<>>, calls |-> {}, met |-> {}]
        c1 == MergeLoop(h, prev, state, c0)
        c2 == AddRemaining(c1.heap, state, c1)
        c3 == DeleteRemaining(c2.heap, prev, c2)
        h4 == addDeletedItems(c3.heap, state, c3.deletedItems)
        modified == OrDeleted(c3.modified, c3.deletedItems)
    IN  [heap |-> MarkState(h4, state, modified),
         ret |-> modified,
         calls |-> c3.calls \cup {[prev |-> prev, state |-> state, ret |-> modified]},
         met |-> c3.met]

----------------------------------------------------------------------------
(* enum CheckState, enum CheckStatus, enum ModelCheckResultSource and the  *)
(* display names *)

Running == "R"
Success == "S"
Error == "E"
Stopped == "X"
CheckState == {Running, Success, Error, Stopped}

NotStarted == 0
Starting == 1
SanyParsing == 2
SanyFinished == 3
InitialStatesComputing == 4
Checkpointing == 5
CheckingLiveness == 6
CheckingLivenessFinal == 7
ServerRunning == 8
WorkersRegistered == 9
Finished == 10
CheckStatus == NotStarted..Finished

Process == 0
OutFile == 1
ModelCheckResultSource == {Process, OutFile}

STATUS_NAMES ==
    <<"Not started", "Starting", "SANY parsing", "SANY finished",
      "Computing initial states", "Checkpointing", "Checking liveness",
      "Checking final liveness", "Master waiting for workers",
      "Workers connected", "Finished">>

STATE_NAMES ==
    [s \in CheckState |->
        CASE s = Running -> "Running" [] s = Success -> "Success"
          [] s = Error -> "Errors" [] s = Stopped -> "Stopped"]

getStateName(state) == STATE_NAMES[state]

\* STATUS_NAMES is indexed from NotStarted = 0
getStatusName(status) == STATUS_NAMES[status + 1]

\* a Moment is stood for by what its format('HH:mm:ss (MMM D)') returns
dateTimeToStr(dateTime) ==
    IF dateTime = Undefined THEN "not yet" ELSE dateTime[1]

durationToStr(dur) ==
    IF dur = Undefined THEN "" ELSE ToString(dur[1]) \o " msec"

\* the switch of the constructor; no case for Stopped leaves it undefined
StatusDetails(state, status, errors, collisionProbability) ==
    CASE state = Running -> Some(getStatusName(status))
      [] state = Success ->
            Some(IF collisionProbability # Undefined /\ collisionProbability[1] # ""
                 THEN "Fingerprint collision probability: " \o collisionProbability[1]
                 ELSE "")
      [] state = Error -> Some(ToString(Len(errors)) \o " error(s)")
      [] OTHER -> Undefined

\* new ModelCheckResult(...); a: the constructor's arguments
ModelCheckResult(a) ==
    [source |-> a.source, showFullOutput |-> a.showFullOutput, state |-> a.state,
     status |-> a.status, processInfo |-> a.processInfo,
     initialStatesStat |-> a.initialStatesStat, coverageStat |-> a.coverageStat,
     warnings |-> a.warnings, errors |-> a.errors, errorTrace |-> a.errorTrace,
     sanyMessages |-> a.sanyMessages, startDateTime |-> a.startDateTime,
     endDateTime |-> a.endDateTime, duration |-> a.duration,
     workersCount |-> a.workersCount,
     collisionProbability |-> a.collisionProbability,
     outputLines |-> a.outputLines,
     stateName |-> getStateName(a.state),
     startDateTimeStr |-> dateTimeToStr(a.startDateTime),
     endDateTimeStr |-> dateTimeToStr(a.endDateTime),
     durationStr |-> durationToStr(a.duration),
     statusDetails |-> StatusDetails(a.state, a.status, a.errors,
                                     a.collisionProbability)]

EmptyArgs(source) ==
    [source |-> source, showFullOutput |-> FALSE, state |-> Running,
     status |-> Starting, processInfo |-> Undefined, initialStatesStat |-> <<>>,
     coverageStat |-> <<>>, warnings |-> <<>>, errors |-> <<>>,
     errorTrace |-> <<>>, sanyMessages |-> Undefined,
     startDateTime |-> Undefined, endDateTime |-> Undefined,
     duration |-> Undefined, workersCount |-> 0,
     collisionProbability |-> Undefined, outputLines |-> <<>>]

\* created with the status before Starting
createEmptyNotStarted(source) ==
    ModelCheckResult([EmptyArgs(source) EXCEPT !.status = NotStarted])

\* ModelCheckResult.createEmpty
createEmpty(source) == ModelCheckResult(EmptyArgs(source))

----------------------------------------------------------------------------
(* The values the parser may hand over *)

SeqsOfLen(S, lens) == UNION {[1..m -> S] : m \in lens}

RECURSIVE Ascending(_)
\* the keys of K in ascending order
Ascending(K) ==
    IF K = {} THEN <<>>
    ELSE LET m == CHOOSE x \in K : \A y \in K : x <= y
         IN  <<m>> \o Ascending(K \ {m})

Leaves == {Leaf(k, s) : k \in 1..MaxKey, s \in Strs}

InnerLeaves == {Leaf(k, s) : k \in InnerKeys, s \in Strs}

\* sets, sequences and structures of leaves
InnerColls ==
    {Coll(cls, k, its, TRUE) : cls \in CollectionClasses,
                               k \in InnerKeys,
                               its \in SeqsOfLen(InnerLeaves, InnerLens)}

\* structures holding a set of leaves: a third level of nesting
DeepColls ==
    {Coll("StructureValue", k, <<c>>, FALSE) :
        k \in InnerKeys, c \in {x \in InnerColls : x.cls = "SetValue"}}

RootItems == Leaves \cup InnerColls \cup DeepColls

\* the variables of a state: a structure, its items in the order given or sorted
NestedRoots ==
    {Coll("StructureValue", 0, its, po) :
        its \in SeqsOfLen(RootItems, RootLens), po \in BOOLEAN}

\* sets of numbers, sorted by key as the parser leaves them
FlatRoots ==
    {Coll("SetValue", 0,
          LET ks == Ascending(K) IN [n \in 1..Len(ks) |-> Leaf(ks[n], ToString(ks[n]))],
          TRUE) :
        K \in {J \in SUBSET (1..MaxFlatKey) : Cardinality(J) <= MaxFlatItems}}

Roots == NestedRoots \cup FlatRoots

\* the states of a longer trace: leaves keyed below a set of at most one leaf
SmallItems ==
    InnerLeaves
    \cup {Coll("SetValue", MaxKey, its, TRUE) :
            its \in SeqsOfLen({Leaf(k, "a") : k \in InnerKeys}, InnerLens)}

SmallRoots ==
    {Coll("StructureValue", 0, its, TRUE) : its \in SeqsOfLen(SmallItems, RootLens)}

----------------------------------------------------------------------------
(* The operations *)

NoOp == [op |-> "none", prev |-> 0, state |-> 0, ret |-> FALSE, calls |-> {}, met |-> {}]

Init ==
    /\ heap = <<>>
    /\ trace = <<>>
    /\ last = NoOp
    /\ pre = <<>>
    /\ result = Undefined

\* the parser delivers the next state of the trace, once the one before it is diffed
Parse(pool, maxLen) ==
    /\ Len(trace) < maxLen
    /\ Len(trace) <= 1 \/ last.op = "findChanges"
    /\ \E d \in pool :
          LET b == Build(heap, d)
          IN  /\ heap' = b.heap
              /\ trace' = Append(trace, b.id)
              /\ last' = [NoOp EXCEPT !.op = "parse", !.state = b.id]
    /\ pre' = heap
    /\ UNCHANGED result

\* findChanges(trace[i-1], trace[i]) for the state just delivered
Diff ==
    /\ Len(trace) >= 2
    /\ last.op = "parse"
    /\ LET r == findChanges(heap, trace[Len(trace) - 1], trace[Len(trace)])
       IN  /\ heap' = r.heap
           /\ last' = [op |-> "findChanges", prev |-> trace[Len(trace) - 1],
                       state |-> trace[Len(trace)], ret |-> r.ret,
                       calls |-> r.calls, met |-> r.met]
    /\ pre' = heap
    /\ UNCHANGED <<trace, result>>

\* findChanges(C, C) for a state just delivered
DiffSelf ==
    /\ Len(trace) = 1
    /\ last.op = "parse"
    /\ LET r == findChanges(heap, trace[1], trace[1])
       IN  /\ heap' = r.heap
           /\ last' = [op |-> "findChanges", prev |-> trace[1],
                       state |-> trace[1], ret |-> r.ret,
                       calls |-> r.calls, met |-> r.met]
    /\ pre' = heap
    /\ UNCHANGED <<trace, result>>

Setter(name, i, h) ==
    /\ heap' = h
    /\ last' = [NoOp EXCEPT !.op = name, !.state = i]
    /\ pre' = heap
    /\ UNCHANGED <<trace, result>>

SetModified == \E i \in DOMAIN heap : Setter("setModified", i, setModified(heap, i))

SetAdded == \E i \in DOMAIN heap : Setter("setAdded", i, setAdded(heap, i))

SetDeleted == \E i \in DOMAIN heap : Setter("setDeleted", i, setDeleted(heap, i))

CreateEmpty ==
    /\ \E source \in ModelCheckResultSource :
          /\ result' = Some(createEmpty(source))
          /\ last' = [NoOp EXCEPT !.op = "createEmpty", !.state = source]
    /\ UNCHANGED <<heap, trace, pre>>

\* a snapshot built from what the checker has reported so far
NewResult ==
    /\ \E source \in ModelCheckResultSource, state \in CheckState,
          status \in CheckStatus, n \in 0..MaxErrors,
          cp \in {Undefined, Some(""), Some("1.2E-15")},
          dur \in {Undefined, Some(0)} :
          result' = Some(ModelCheckResult(
                        [EmptyArgs(source) EXCEPT
                            !.state = state, !.status = status,
                            !.errors = [e \in 1..n |-> <<"error">>],
                            !.collisionProbability = cp, !.duration = dur]))
    /\ last' = [NoOp EXCEPT !.op = "new"]
    /\ UNCHANGED <<heap, trace, pre>>

\* two consecutive states, diffed; a state diffed against itself
Next == Parse(Roots, 2) \/ Diff \/ DiffSelf

Spec == Init /\ [][Next]_vars

\* a trace of MaxTrace states diffed in order
NextTrace == Parse(SmallRoots, MaxTrace) \/ Diff

SpecTrace == Init /\ [][NextTrace]_vars

\* the setters applied to the values of a state
NextValue == Parse(SmallRoots, 1) \/ SetModified \/ SetAdded \/ SetDeleted

SpecValue == Init /\ [][NextValue]_vars

\* the snapshots of a model check
NextResult == CreateEmpty \/ NewResult

SpecResult == Init /\ [][NextResult]_vars

----------------------------------------------------------------------------
(* Vocabulary of the properties *)

RECURSIVE Tree(_, _)
\* a value and its descendants through items
Tree(h, r) == {r} \cup UNION {Tree(h, h[r].items[n]) : n \in 1..Len(h[r].items)}

DeletedOf(h, i) == DeletedItemsOrEmpty(h, i)

Range(f) == {f[n] : n \in DOMAIN f}

\* a value, its descendants, and the deleted entries attached to them
FullTree(h, r) == Tree(h, r) \cup UNION {Range(DeletedOf(h, n)) : n \in Tree(h, r)}

\* as constructed: every tag unchanged, no deleted items
Fresh(h, r) ==
    \A n \in Tree(h, r) :
        h[n].changeType = NOT_CHANGED /\ h[n].deletedItems = Undefined

KeysOf(h, items) == {h[items[n]].key : n \in DOMAIN items}

SortedByKey(h, items) ==
    \A m, n \in DOMAIN items : m < n => h[items[m]].key <= h[items[n]].key

StrictlyAscending(h, items) ==
    \A m, n \in DOMAIN items : m < n => h[items[m]].key < h[items[n]].key

LeavesOnly(h, items) == \A n \in DOMAIN items : h[items[n]].cls = "Value"

Marked(h, i) == h[i].changeType \in {ADDED, MODIFIED}

\* the str a collection's constructor would render from its items now
Render(h, i) ==
    CASE h[i].cls = "SetValue" ->
            makeCollectionValueString(h, h[i].items, "{", "}", ", ", strOf(h))
      [] h[i].cls = "SequenceValue" ->
            makeCollectionValueString(h, h[i].items, "<<", ">>", ", ", strOf(h))
      [] h[i].cls = "StructureValue" ->
            makeCollectionValueString(h, h[i].items, "[", "]", ", ", itemToString(h))

KeyStr(h, items) == [n \in DOMAIN items |-> <<h[items[n]].key, h[items[n]].str>>]

Called == last.op = "findChanges"

\* the pair of each invocation of findChanges of the last operation
CallsOf == {<<c.prev, c.state>> : c \in last.calls}

\* an item of B tagged added has a key that is in no item of A; a key recorded
\* in B's deleted items is in no item of B
Symmetric(A, B) ==
    /\ \A n \in DOMAIN heap[B].items :
          heap[heap[B].items[n]].changeType = ADDED
              => heap[heap[B].items[n]].key \notin KeysOf(pre, pre[A].items)
    /\ \A d \in Range(DeletedOf(heap, B)) :
          heap[d].key \notin KeysOf(heap, heap[B].items)

----------------------------------------------------------------------------
(* The properties *)

\* C1 as stated: for any two collections whose items are sorted ascending by
\* key, keys not being unique, findChanges(A, B) tags added only items whose
\* key is in no item of A and records as deleted only keys in no item of B.
C1_SymmetrySorted ==
    Called =>
        \A c \in CallsOf :
            /\ SortedByKey(pre, pre[c[1]].items)
            /\ SortedByKey(pre, pre[c[2]].items)
            /\ Fresh(pre, c[2])
            => Symmetric(c[1], c[2])

\* C1 amended: the same for two collections whose keys are strictly ascending
\* (sorted and unique among siblings).
C1_SymmetryStrict ==
    Called =>
        \A c \in CallsOf :
            /\ StrictlyAscending(pre, pre[c[1]].items)
            /\ StrictlyAscending(pre, pre[c[2]].items)
            /\ Fresh(pre, c[2])
            => Symmetric(c[1], c[2])

C1_Witness ==
    /\ Called
    /\ StrictlyAscending(pre, pre[last.prev].items)
    /\ StrictlyAscending(pre, pre[last.state].items)
    /\ \E n \in DOMAIN heap[last.state].items :
          heap[heap[last.state].items[n]].changeType = ADDED
    /\ DeletedOf(heap, last.state) # <<>>

\* C2: when findChanges(prev, cur) tags a descendant of cur added or modified,
\* or records a deleted item in a descendant collection, every collection from
\* that descendant up to the root cur is tagged modified.
C2_Propagation ==
    Called /\ Fresh(pre, last.state) =>
        \A n \in Tree(heap, last.state) :
            (\E d \in Tree(heap, n) :
                \/ d # n /\ Marked(heap, d)
                \/ DeletedOf(heap, d) # <<>>)
            => heap[n].changeType = MODIFIED

\* a change three levels below the root, with every collection above it modified
C2_Witness ==
    /\ Called
    /\ \E a \in Range(heap[last.state].items) :
        \E b \in Range(heap[a].items) :
        \E x \in Range(heap[b].items) :
            /\ Marked(heap, x)
            /\ heap[b].changeType = MODIFIED
            /\ heap[a].changeType = MODIFIED
            /\ heap[last.state].changeType = MODIFIED

\* C3: for a freshly constructed collection C, findChanges(C, C) returns false
\* and leaves every tag of C's tree unchanged and every deletedItems undefined.
C3_SelfDiff ==
    Called /\ last.prev = last.state /\ Fresh(pre, last.state) =>
        /\ last.ret = FALSE
        /\ \A n \in Tree(heap, last.state) :
              heap[n].changeType = NOT_CHANGED /\ heap[n].deletedItems = Undefined

C3_Witness ==
    /\ Called
    /\ last.prev = last.state
    /\ Len(heap[last.state].items) >= 2
    /\ \E a \in Range(heap[last.state].items) : heap[a].items # <<>>

\* C4: for two collections of leaves with strictly ascending keys, an item of
\* cur is added exactly when its key is in no item of prev, modified exactly
\* when its key is in prev with another str, unchanged exactly when its key is
\* in prev with the same str; cur.deletedItems holds, in prev order, one entry
\* (same key and str) for each item of prev whose key is in no item of cur.
C4_Classification ==
    Called =>
        \A c \in CallsOf :
            LET pItems == pre[c[1]].items
                sItems == pre[c[2]].items
            IN  /\ LeavesOnly(pre, pItems) /\ LeavesOnly(pre, sItems)
                /\ StrictlyAscending(pre, pItems) /\ StrictlyAscending(pre, sItems)
                /\ Fresh(pre, c[2])
                =>
                /\ \A n \in DOMAIN sItems :
                      LET i == sItems[n]
                          same == {p \in Range(pItems) : pre[p].key = pre[i].key}
                      IN  /\ heap[i].changeType = ADDED <=> same = {}
                          /\ heap[i].changeType = MODIFIED
                                <=> \E p \in same : pre[p].str # pre[i].str
                          /\ heap[i].changeType = NOT_CHANGED
                                <=> \E p \in same : pre[p].str = pre[i].str
                /\ KeyStr(heap, DeletedOf(heap, c[2]))
                      = KeyStr(pre, SelectSeq(pItems,
                            LAMBDA p : pre[p].key \notin KeysOf(pre, sItems)))

\* prev {1, 2, 3}, cur {2, 3, 4}: 4 added, 2 and 3 unchanged, deletedItems = [1]
C4_Witness ==
    /\ Called
    /\ pre[last.prev].str = "{1, 2, 3}"
    /\ heap[last.state].str = "{2, 3, 4}"
    /\ [n \in 1..3 |-> heap[heap[last.state].items[n]].changeType]
          = <<NOT_CHANGED, NOT_CHANGED, ADDED>>
    /\ KeyStr(heap, DeletedOf(heap, last.state)) = << <<1, "1">> >>

\* C5 as stated: two equal-key items that are not of the same shape (a set and
\* a sequence or structure, a collection and a leaf) are not descended into:
\* the current item is tagged modified exactly when the two str differ, none
\* of its descendants is tagged and no deleted items are attached to it.
C5_MismatchedShapes ==
    Called /\ Fresh(pre, last.state) =>
        \A m \in last.met :
            pre[m[1]].cls # pre[m[2]].cls =>
                /\ heap[m[2]].changeType = MODIFIED <=> pre[m[1]].str # pre[m[2]].str
                /\ heap[m[2]].changeType \in {MODIFIED, NOT_CHANGED}
                /\ \A d \in Tree(heap, m[2]) \ {m[2]} :
                      heap[d].changeType = NOT_CHANGED
                /\ \A d \in Tree(heap, m[2]) : heap[d].deletedItems = Undefined

\* C6: after findChanges(prev, cur) every entry of deletedItems in cur's tree is
\* tagged deleted and is no element of the collection's items; the items lists
\* and every str of cur's tree are what they were, each collection's str being
\* the join of its items.
C6_DeletedDisplayOnly ==
    Called =>
        \A n \in Tree(heap, last.state) :
            /\ \A d \in Range(DeletedOf(heap, n)) :
                  heap[d].changeType = DELETED /\ d \notin Range(heap[n].items)
            /\ heap[n].items = pre[n].items
            /\ heap[n].str = pre[n].str
            /\ IsCollection(heap, n) => heap[n].str = Render(heap, n)

C6_Witness ==
    /\ Called
    /\ DeletedOf(heap, last.state) # <<>>
    /\ \E a \in Range(heap[last.state].items) : DeletedOf(heap, a) # <<>>

\* C7: for a freshly constructed cur, findChanges(prev, cur) returns true iff
\* cur is tagged modified on return, which is iff a direct item of cur is
\* tagged added or modified or cur.deletedItems is non-empty; when it returns
\* false cur stays unchanged and cur.deletedItems undefined.
C7_ReturnValue ==
    Called =>
        \A c \in last.calls :
            Fresh(pre, c.state) =>
                /\ c.ret <=> heap[c.state].changeType = MODIFIED
                /\ heap[c.state].changeType = MODIFIED
                      <=> \/ \E i \in Range(heap[c.state].items) : Marked(heap, i)
                          \/ DeletedOf(heap, c.state) # <<>>
                /\ ~c.ret => /\ heap[c.state].changeType = NOT_CHANGED
                             /\ heap[c.state].deletedItems = Undefined

\* a call that returns true for its deleted items alone
C7_Witness ==
    /\ Called
    /\ last.ret
    /\ heap[last.state].items # <<>>
    /\ \A i \in Range(heap[last.state].items) : ~Marked(heap, i)
    /\ DeletedOf(heap, last.state) # <<>>

\* C8: createEmpty(source) yields state Running, status Starting,
\* statusDetails "Starting", every collection empty, and the source given.
C8_CreateEmpty ==
    last.op = "createEmpty" =>
        LET r == result[1]
        IN  /\ r.state = Running
            /\ r.status = Starting
            /\ r.statusDetails = Some("Starting")
            /\ r.initialStatesStat = <<>> /\ r.coverageStat = <<>>
            /\ r.warnings = <<>> /\ r.errors = <<>>
            /\ r.errorTrace = <<>> /\ r.outputLines = <<>>
            /\ r.source = last.state

C8_Witness ==
    /\ last.op = "createEmpty"
    /\ result[1].source = OutFile
    /\ result[1].statusDetails = Some("Starting")

\* C9 as stated: setModified() leaves changeType modified, setAdded() leaves it
\* added and setDeleted() leaves it deleted, whatever the tag was; key and str
\* stay, and no other value changes.
C9_SettersSetTheirTag ==
    last.op \in {"setModified", "setAdded", "setDeleted"} =>
        /\ heap[last.state].changeType =
              CASE last.op = "setModified" -> MODIFIED
                [] last.op = "setAdded" -> ADDED
                [] last.op = "setDeleted" -> DELETED
        /\ heap[last.state].key = pre[last.state].key
        /\ heap[last.state].str = pre[last.state].str
        /\ \A n \in DOMAIN heap : n # last.state => heap[n] = pre[n]

\* what findChanges(prev, cur) would do had prev no annotations
Unannotated(h, r) ==
    [n \in DOMAIN h |->
        IF n \in Tree(h, r)
        THEN [h[n] EXCEPT !.changeType = NOT_CHANGED, !.deletedItems = Undefined]
        ELSE h[n]]

\* C10: findChanges(prev, cur), for distinct trees, leaves prev and everything
\* outside cur's tree as it was, attaches new copies as deleted entries, and
\* tags cur and returns as it would had prev no annotations; so in a trace
\* diffed in order the first state stays unannotated.
C10_PrevUntouched ==
    /\ trace # <<>> => Fresh(heap, trace[1])
    /\ Called /\ last.prev # last.state =>
        /\ \A n \in DOMAIN pre : n \notin Tree(pre, last.state) => heap[n] = pre[n]
        /\ \A n \in Tree(heap, last.state) :
              \A d \in Range(DeletedOf(heap, n)) : d \notin DOMAIN pre
        /\ LET r == findChanges(Unannotated(pre, last.prev), last.prev, last.state)
           IN  /\ r.ret = last.ret
               /\ \A n \in DOMAIN heap :
                     n \notin FullTree(pre, last.prev) => r.heap[n] = heap[n]

\* the third state diffed against a second that carries tags and deleted items
C10_Witness ==
    /\ Called
    /\ Len(trace) = MaxTrace
    /\ DeletedOf(heap, last.prev) # <<>>
    /\ \E i \in Range(heap[last.prev].items) : Marked(heap, i)
    /\ DeletedOf(heap, last.state) # <<>>
    /\ \E i \in Range(heap[last.state].items) : heap[i].changeType = MODIFIED

=============================================================================
